---------------------------- MODULE Spec2Model ----------------------------
(***************************************************************************)
(* Model of the streaming standard scaler of examples/running_mean:        *)
(*   OnlineOptimizer  (standard_scaler/optimizer.rs)  fit, incremental_fit *)
(*   StandardScaler   (standard_scaler/mod.rs)        transform            *)
(*   Config           (standard_scaler/config.rs)     ddof, default        *)
(* driven by a caller that, like main.rs, owns the optimizers and threads  *)
(* the scalers they return through later calls.                            *)
(*                                                                         *)
(* f64 values are modelled in exact arithmetic: a value is a reduced       *)
(* rational, a signed square root of a reduced rational (the results of    *)
(* sqrt and of a division by such a root), an infinity or NaN, with the    *)
(* IEEE-754 rules for the special values (x/0, 0/0, inf-inf, sqrt of a     *)
(* negative).  Rounding is not modelled, so "equal within tolerance" is    *)
(* checked as equality of the exact values.                                *)
(***************************************************************************)
EXTENDS Integers, Sequences, FiniteSets

VARIABLES
    n_samples,   \* n_samples[o]: the counter of OnlineOptimizer o
    held,        \* the StandardScaler values the caller owns, newest first
    calls,       \* the calls made so far, oldest first, with their results
    panicked     \* TRUE once a call has panicked: the process is gone

vars == <<n_samples, held, calls, panicked>>

---------------------------------------------------------------------------
(* Bounds of the model *)

\* The caller makes at most MaxCalls calls, so the u64 counters stay far from
\* wrapping.
MaxCalls == 3

\* The two optimizers the caller owns.
Optimizers == {"opt1", "opt2"}

\* The batch of the running example, and the batches calls are drawn from:
\* empty, one sample, two samples, and the running example.
ScenarioA == <<2, 4, 4, 4, 5, 5, 7, 9>>

ScenarioB == <<1, 3>>

Batches == {<<>>, <<3>>, ScenarioB, ScenarioA}

---------------------------------------------------------------------------
(* f64 in exact arithmetic *)

Abs(i) == IF i < 0 THEN -i ELSE i

Sign(i) == IF i < 0 THEN -1 ELSE 1

RECURSIVE Gcd(_, _)
Gcd(a, b) == IF b = 0 THEN a ELSE Gcd(b, a % b)

\* The rational n/d (d # 0) in lowest terms with a positive denominator.
Fin(n, d) ==
    LET g == Gcd(Abs(n), Abs(d))
    IN  [k |-> "fin", n |-> Sign(d) * (n \div g), d |-> Abs(d) \div g]

\* Sign(n) * sqrt(|n| / d) in lowest terms.
Root(n, d) ==
    LET g == Gcd(Abs(n), Abs(d))
    IN  [k |-> "sqrt", n |-> Sign(d) * (n \div g), d |-> Abs(d) \div g]

NaN == [k |-> "nan", n |-> 0, d |-> 1]

Inf(s) == [k |-> "inf", n |-> s, d |-> 1]

FromInt(i) == Fin(i, 1)

IsZero(a) == a.k \in {"fin", "sqrt"} /\ a.n = 0

IsFinite(a) == a.k \in {"fin", "sqrt"}

\* a + b
Add(a, b) ==
    CASE a.k = "nan" \/ b.k = "nan" -> NaN
      [] a.k = "inf" /\ b.k = "inf" -> IF a.n = b.n THEN a ELSE NaN
      [] a.k = "inf" /\ b.k = "fin" -> a
      [] a.k = "fin" /\ b.k = "inf" -> b
      [] a.k = "fin" /\ b.k = "fin" -> Fin(a.n * b.d + b.n * a.d, a.d * b.d)

Neg(a) == IF a.k = "nan" THEN NaN ELSE [a EXCEPT !.n = -a.n]

\* a - b
Sub(a, b) == Add(a, Neg(b))

\* a * b
Mul(a, b) ==
    CASE a.k = "nan" \/ b.k = "nan" -> NaN
      [] a.k = "inf" /\ b.k = "inf" -> Inf(a.n * b.n)
      [] a.k = "inf" /\ b.k = "fin" -> IF b.n = 0 THEN NaN ELSE Inf(a.n * Sign(b.n))
      [] a.k = "fin" /\ b.k = "inf" -> IF a.n = 0 THEN NaN ELSE Inf(b.n * Sign(a.n))
      [] a.k = "fin" /\ b.k = "fin" -> Fin(a.n * b.n, a.d * b.d)

\* a.powi(2)
Powi2(a) ==
    CASE a.k = "nan"  -> NaN
      [] a.k = "inf"  -> Inf(1)
      [] a.k = "sqrt" -> Fin(Abs(a.n), a.d)
      [] a.k = "fin"  -> Fin(a.n * a.n, a.d * a.d)

\* a / b, for a rational, infinite or NaN a
Div(a, b) ==
    CASE a.k = "nan" \/ b.k = "nan" -> NaN
      [] a.k = "inf" /\ b.k = "inf" -> NaN
      [] a.k = "inf" /\ IsFinite(b) -> Inf(a.n * Sign(b.n))
      [] a.k = "fin" /\ b.k = "inf" -> FromInt(0)
      [] a.k = "fin" /\ IsZero(b)   -> IF a.n = 0 THEN NaN ELSE Inf(Sign(a.n))
      [] a.k = "fin" /\ b.k = "fin" -> Fin(a.n * b.d, a.d * b.n)
      [] a.k = "fin" /\ b.k = "sqrt" ->
            Root(Sign(a.n) * Sign(b.n) * (a.n * a.n * b.d), a.d * a.d * Abs(b.n))

\* a.sqrt()
Sqrt(a) ==
    CASE a.k = "nan" -> NaN
      [] a.k = "inf" -> IF a.n > 0 THEN a ELSE NaN
      [] a.k = "fin" -> IF a.n < 0 THEN NaN ELSE Root(a.n, a.d)

\* a >= b for rationals
Geq(a, b) == a.n * b.d >= b.n * a.d

---------------------------------------------------------------------------
(* ndarray reductions over a one-dimensional array *)

RECURSIVE SumOf(_)
SumOf(s) == IF s = <<>> THEN FromInt(0) ELSE Add(FromInt(Head(s)), SumOf(Tail(s)))

\* inputs.mean_axis(Axis(0)).into_scalar()
MeanAxis(inputs) == Div(SumOf(inputs), FromInt(Len(inputs)))

RECURSIVE SumSqDev(_, _)
SumSqDev(s, m) ==
    IF s = <<>> THEN FromInt(0)
    ELSE Add(Powi2(Sub(FromInt(Head(s)), m)), SumSqDev(Tail(s), m))

\* std_axis (ndarray 0.12, the release whose mean_axis returns the array that
\* into_scalar() is called on) panics unless ddof is strictly smaller than the
\* length of the axis.
StdAxisPanics(inputs, ddof) == Geq(ddof, FromInt(Len(inputs)))

\* inputs.std_axis(Axis(0), ddof).into_scalar()
StdAxis(inputs, ddof) ==
    Sqrt(Div(SumSqDev(inputs, MeanAxis(inputs)), Sub(FromInt(Len(inputs)), ddof)))

---------------------------------------------------------------------------
(* The types of the example *)

\* pub struct StandardScaler { ddof, mean, standard_deviation }
StandardScaler(ddof, mean, standard_deviation) ==
    [ddof |-> ddof, mean |-> mean, standard_deviation |-> standard_deviation]

\* The place of a scaler in the record of a call that has none.
NoScaler == StandardScaler(NaN, NaN, NaN)

\* pub struct Config { ddof }
Config(ddof) == [ddof |-> ddof]

\* Config::default()
ConfigDefault == Config(FromInt(1))

\* The configurations the caller chooses from: population or sample.
Configs == {Config(FromInt(0)), ConfigDefault}

\* OnlineOptimizer::default()
OnlineOptimizerDefault == 0

---------------------------------------------------------------------------
(* The operations, as functions of the state they read *)

\* fit with the counter written before the empty input is rejected.
FitCallCountsFirst(n, inputs, blueprint) ==
    IF Len(inputs) = 0
    THEN [outcome |-> "Err", n_samples |-> Len(inputs), scaler |-> NoScaler]
    ELSE IF StdAxisPanics(inputs, blueprint.ddof)
    THEN [outcome |-> "panic", n_samples |-> n, scaler |-> NoScaler]
    ELSE [outcome |-> "Ok",
          n_samples |-> Len(inputs),
          scaler |-> StandardScaler(blueprint.ddof, MeanAxis(inputs),
                                    StdAxis(inputs, blueprint.ddof))]

\* fit that adds the batch to the counter instead of overwriting it.
FitCallAccumulates(n, inputs, blueprint) ==
    IF Len(inputs) = 0
    THEN [outcome |-> "Err", n_samples |-> n, scaler |-> NoScaler]
    ELSE IF StdAxisPanics(inputs, blueprint.ddof)
    THEN [outcome |-> "panic", n_samples |-> n, scaler |-> NoScaler]
    ELSE [outcome |-> "Ok",
          n_samples |-> n + Len(inputs),
          scaler |-> StandardScaler(blueprint.ddof, MeanAxis(inputs),
                                    StdAxis(inputs, blueprint.ddof))]

\* OnlineOptimizer::fit on an optimizer whose counter is n.
FitCall(n, inputs, blueprint) ==
    IF Len(inputs) = 0
    THEN [outcome |-> "Err", n_samples |-> n, scaler |-> NoScaler]
    ELSE IF StdAxisPanics(inputs, blueprint.ddof)
    THEN [outcome |-> "panic", n_samples |-> n, scaler |-> NoScaler]
    ELSE LET mean == MeanAxis(inputs)
             standard_deviation == StdAxis(inputs, blueprint.ddof)
         IN  [outcome |-> "Ok",
              n_samples |-> Len(inputs),
              scaler |-> StandardScaler(blueprint.ddof, mean, standard_deviation)]

\* The merged standard deviation without the ddof correction of the two sums.
NewStdNoDdof(n, ddof, batch_n_samples, batch_std, mean_delta, new_n_samples, transformer) ==
    Sqrt(Div(Add(Add(Mul(Powi2(transformer.standard_deviation), FromInt(n)),
                     Mul(Powi2(batch_std), FromInt(batch_n_samples))),
                 Div(Mul(Mul(Powi2(mean_delta), FromInt(n)), FromInt(batch_n_samples)),
                     FromInt(new_n_samples))),
             FromInt(new_n_samples)))

\* The standard deviation incremental_fit computes for the merged samples.
NewStd(n, ddof, batch_n_samples, batch_std, mean_delta, new_n_samples, transformer) ==
    Sqrt(Div(Add(Add(Mul(Powi2(transformer.standard_deviation),
                         Sub(FromInt(n), ddof)),
                     Mul(Powi2(batch_std), Sub(FromInt(batch_n_samples), ddof))),
                 Div(Mul(Mul(Powi2(mean_delta), FromInt(n)), FromInt(batch_n_samples)),
                     FromInt(new_n_samples))),
             Sub(FromInt(new_n_samples), ddof)))

\* incremental_fit past its empty-batch return: the merge of a batch into the
\* statistics of transformer, on an optimizer whose counter is n.
IncrementalFitMerge(n, inputs, transformer) ==
    IF StdAxisPanics(inputs, transformer.ddof)
    THEN [outcome |-> "panic", n_samples |-> n, scaler |-> NoScaler]
    ELSE LET ddof == transformer.ddof
             batch_n_samples == Len(inputs)
             batch_mean == MeanAxis(inputs)
             batch_std == StdAxis(inputs, ddof)
             mean_delta == Sub(batch_mean, transformer.mean)
             new_n_samples == n + batch_n_samples
             new_mean == Add(transformer.mean,
                             Div(Mul(mean_delta, FromInt(batch_n_samples)),
                                 FromInt(new_n_samples)))
             new_std == NewStd(n, ddof, batch_n_samples, batch_std, mean_delta,
                               new_n_samples, transformer)
         IN  [outcome |-> "Ok",
              n_samples |-> new_n_samples,
              scaler |-> StandardScaler(ddof, new_mean, new_std)]

\* incremental_fit without its empty-batch return.
IncrementalFitCallNoEmptyCheck(n, inputs, transformer) ==
    IncrementalFitMerge(n, inputs, transformer)

\* incremental_fit that never stores the new counter.
IncrementalFitCallKeepsCount(n, inputs, transformer) ==
    IF Len(inputs) = 0
    THEN [outcome |-> "Ok", n_samples |-> n, scaler |-> transformer]
    ELSE [IncrementalFitMerge(n, inputs, transformer) EXCEPT !.n_samples = n]

\* OnlineOptimizer::incremental_fit on an optimizer whose counter is n.
IncrementalFitCall(n, inputs, transformer) ==
    IF Len(inputs) = 0
    THEN [outcome |-> "Ok", n_samples |-> n, scaler |-> transformer]
    ELSE IncrementalFitMerge(n, inputs, transformer)

\* transform that divides without subtracting the mean.
TransformCallNoCentering(self, inputs) ==
    [outcome |-> "Ok",
     output |-> [i \in 1..Len(inputs) |->
                    Div(FromInt(inputs[i]), self.standard_deviation)]]

\* StandardScaler::transform: (inputs - self.mean) / self.standard_deviation
TransformCall(self, inputs) ==
    [outcome |-> "Ok",
     output |-> [i \in 1..Len(inputs) |->
                    Div(Sub(FromInt(inputs[i]), self.mean), self.standard_deviation)]]

---------------------------------------------------------------------------
(* The caller *)

\* s without its i-th element: that value was moved into a call.
Without(s, i) == SubSeq(s, 1, i - 1) \o SubSeq(s, i + 1, Len(s))

Init ==
    /\ n_samples = [o \in Optimizers |-> OnlineOptimizerDefault]
    /\ held = <<>>
    /\ calls = <<>>
    /\ panicked = FALSE

\* optimizer.fit(&inputs, &targets, blueprint)
Fit(o, inputs, config) ==
    /\ ~panicked
    /\ Len(calls) < MaxCalls
    /\ \E r \in {FitCall(n_samples[o], inputs, config)} :
       LET after == [n_samples EXCEPT ![o] = r.n_samples]
       IN  /\ n_samples' = after
           /\ held' = IF r.outcome = "Ok" THEN <<r.scaler>> \o held ELSE held
           /\ panicked' = (r.outcome = "panic")
           /\ calls' = Append(calls,
                  [op |-> "fit", o |-> o, inputs |-> inputs, ddof |-> config.ddof,
                   transformer |-> NoScaler, before |-> n_samples, after |-> after,
                   outcome |-> r.outcome, scaler |-> r.scaler, output |-> <<>>])

\* optimizer.incremental_fit(&inputs, &targets, transformer): held[i] is moved in
IncrementalFit(o, inputs, i) ==
    /\ ~panicked
    /\ Len(calls) < MaxCalls
    /\ i \in 1..Len(held)
    /\ \E r \in {IncrementalFitCall(n_samples[o], inputs, held[i])} :
       LET after == [n_samples EXCEPT ![o] = r.n_samples]
       IN  /\ n_samples' = after
           /\ held' = IF r.outcome = "Ok"
                      THEN <<r.scaler>> \o Without(held, i)
                      ELSE Without(held, i)
           /\ panicked' = (r.outcome = "panic")
           /\ calls' = Append(calls,
                  [op |-> "incremental_fit", o |-> o, inputs |-> inputs,
                   ddof |-> held[i].ddof, transformer |-> held[i],
                   before |-> n_samples, after |-> after,
                   outcome |-> r.outcome, scaler |-> r.scaler, output |-> <<>>])

\* scaler.transform(&inputs): held[i] is borrowed
Transform(i, inputs) ==
    /\ ~panicked
    /\ Len(calls) < MaxCalls
    /\ i \in 1..Len(held)
    /\ UNCHANGED <<n_samples, held, panicked>>
    /\ \E r \in {TransformCall(held[i], inputs)} :
           calls' = Append(calls,
                  [op |-> "transform", o |-> "none", inputs |-> inputs,
                   ddof |-> held[i].ddof, transformer |-> held[i],
                   before |-> n_samples, after |-> n_samples',
                   outcome |-> r.outcome, scaler |-> held'[i], output |-> r.output])

Next ==
    \/ \E o \in Optimizers, inputs \in Batches, config \in Configs : Fit(o, inputs, config)
    \/ \E o \in Optimizers, inputs \in Batches, i \in 1..Len(held) : IncrementalFit(o, inputs, i)
    \/ \E i \in 1..Len(held), inputs \in Batches : Transform(i, inputs)

Spec == Init /\ [][Next]_vars

---------------------------------------------------------------------------
(* Properties *)

IsFit(c) == c.op = "fit"

IsUpdate(c) == c.op = "incremental_fit"

IsTransform(c) == c.op = "transform"

\* C2: a fit on an empty batch returns an error, and every fit or
\* incremental_fit that returns an error leaves every counter as it was.
EmptyInputRejection ==
    \A i \in DOMAIN calls :
        LET c == calls[i]
        IN  /\ (IsFit(c) /\ Len(c.inputs) = 0) => c.outcome = "Err"
            /\ ((IsFit(c) \/ IsUpdate(c)) /\ c.outcome = "Err") => c.after = c.before
            /\ i = Len(calls) => n_samples = c.after

\* A fit on an empty batch was rejected by an optimizer that had counted samples.
EmptyInputRejectionWitness ==
    \E i \in DOMAIN calls :
        /\ IsFit(calls[i]) /\ calls[i].inputs = <<>> /\ calls[i].outcome = "Err"
        /\ calls[i].before[calls[i].o] > 0
        /\ n_samples[calls[i].o] > 0

\* C3: incremental_fit on an empty batch returns Ok with the scaler it was
\* given, field for field, and leaves every counter as it was.
EmptyBatchNoOp ==
    \A i \in DOMAIN calls :
        LET c == calls[i]
        IN  (IsUpdate(c) /\ Len(c.inputs) = 0) =>
                /\ c.outcome = "Ok"
                /\ c.scaler.ddof = c.transformer.ddof
                /\ c.scaler.mean = c.transformer.mean
                /\ c.scaler.standard_deviation = c.transformer.standard_deviation
                /\ c.after = c.before
                /\ i = Len(calls) => (n_samples = c.before /\ held[1] = c.transformer)

\* An empty batch was merged on an optimizer that had counted samples, and on one
\* that had counted none.
EmptyBatchNoOpWitness ==
    /\ \E i \in DOMAIN calls :
          IsUpdate(calls[i]) /\ calls[i].inputs = <<>> /\ calls[i].before[calls[i].o] > 0
    /\ \E i \in DOMAIN calls :
          IsUpdate(calls[i]) /\ calls[i].inputs = <<>> /\ calls[i].before[calls[i].o] = 0

\* C6: a fit that returns Ok leaves the optimizer's counter equal to the length of
\* its batch, whatever it was before, and returns a scaler with the ddof of the
\* configuration it was given.
FitIsReset ==
    \A i \in DOMAIN calls :
        LET c == calls[i]
        IN  (IsFit(c) /\ c.outcome = "Ok") =>
                /\ c.after[c.o] = Len(c.inputs)
                /\ c.scaler.ddof = c.ddof
                /\ i = Len(calls) => n_samples[c.o] = Len(c.inputs)

\* A fit succeeded on an optimizer whose counter was larger than the new batch,
\* after a fit and an incremental_fit on that optimizer.
FitIsResetWitness ==
    /\ Len(calls) = 3
    /\ IsFit(calls[1]) /\ IsUpdate(calls[2]) /\ IsFit(calls[3])
    /\ calls[1].o = calls[3].o /\ calls[2].o = calls[3].o
    /\ calls[3].outcome = "Ok"
    /\ calls[3].before[calls[3].o] > Len(calls[3].inputs)

\* The counters before any call.
FreshCounters == [o \in Optimizers |-> OnlineOptimizerDefault]

\* Each call starts from the counters the call before it left.
CountersThreaded ==
    \A i \in DOMAIN calls :
        /\ calls[i].before = (IF i = 1 THEN FreshCounters ELSE calls[i - 1].after)
        /\ i = Len(calls) => n_samples = calls[i].after

\* C7 as stated: counters start at 0, every incremental_fit of a batch makes its
\* counter strictly larger, by the size of the batch, and no call of a sequence
\* of fits and incremental_fits ever lowers a counter. (Read in the claim's
\* favour: only merges that return, of batches that are not empty, are held to
\* the strict increase.)
CountLifecycle ==
    /\ calls = <<>> => n_samples = FreshCounters
    /\ CountersThreaded
    /\ \A i \in DOMAIN calls :
          LET c == calls[i]
          IN  /\ (IsUpdate(c) /\ c.outcome = "Ok" /\ Len(c.inputs) > 0) =>
                    /\ c.after[c.o] = c.before[c.o] + Len(c.inputs)
                    /\ c.after[c.o] > c.before[c.o]
              /\ \A o \in Optimizers : c.after[o] >= c.before[o]

\* C7 amended: counters start at 0; an incremental_fit that returns adds the size
\* of its batch to its counter (nothing for an empty batch), one that panics
\* leaves it as it was, so incremental_fit never lowers a counter; a transform
\* changes no counter; a call changes no counter but its own optimizer's. Only
\* fit, which overwrites the counter, can lower it.
CountLifecycleAmended ==
    /\ calls = <<>> => n_samples = FreshCounters
    /\ CountersThreaded
    /\ \A i \in DOMAIN calls :
          LET c == calls[i]
          IN  /\ (IsUpdate(c) /\ c.outcome = "Ok") =>
                    c.after[c.o] = c.before[c.o] + Len(c.inputs)
              /\ (IsUpdate(c) /\ c.outcome # "Ok") => c.after = c.before
              /\ ~IsFit(c) => \A o \in Optimizers : c.after[o] >= c.before[o]
              /\ \A o \in Optimizers \ {c.o} : c.after[o] = c.before[o]

\* A non-empty batch was merged into a counter that was not 0, and a later fit
\* on that optimizer lowered the counter.
CountLifecycleWitness ==
    /\ Len(calls) = 3
    /\ IsUpdate(calls[2]) /\ calls[2].outcome = "Ok" /\ Len(calls[2].inputs) > 0
    /\ calls[2].before[calls[2].o] > 0
    /\ IsFit(calls[3]) /\ calls[3].o = calls[2].o
    /\ calls[3].after[calls[3].o] < calls[3].before[calls[3].o]

\* q is the IEEE quotient a / b of a rational or NaN a by a standard deviation b.
IsQuotient(q, a, b) ==
    CASE a.k = "nan" \/ b.k = "nan" -> q = NaN
      [] a.k = "fin" /\ b.k = "inf" -> q = FromInt(0)
      [] a.k = "fin" /\ IsZero(b)   -> q = (IF a.n = 0 THEN NaN ELSE Inf(Sign(a.n)))
      [] a.k = "fin" /\ b.k = "sqrt" /\ b.n # 0 ->
            /\ q.k = "sqrt"
            /\ Mul(Powi2(q), Powi2(b)) = Powi2(a)
            /\ (a.n = 0 => q.n = 0)
            /\ (a.n # 0 => Sign(q.n) = Sign(a.n) * Sign(b.n))

\* C9: a transform changes no counter and leaves the scaler it is called on as it
\* was; its output has one element per input element, element j being
\* (inputs[j] - mean) / standard_deviation; and two transforms of the same batch
\* by the same scaler value give the same output, whatever was called in between.
TransformIsPure ==
    /\ \A i \in DOMAIN calls :
          LET c == calls[i]
          IN  IsTransform(c) =>
                /\ c.after = c.before
                /\ c.scaler.ddof = c.transformer.ddof
                /\ c.scaler.mean = c.transformer.mean
                /\ c.scaler.standard_deviation = c.transformer.standard_deviation
                /\ Len(c.output) = Len(c.inputs)
                /\ \A j \in 1..Len(c.inputs) :
                      IsQuotient(c.output[j], Sub(FromInt(c.inputs[j]), c.transformer.mean),
                                 c.transformer.standard_deviation)
                /\ i = Len(calls) => n_samples = c.before
    /\ \A i, j \in DOMAIN calls :
          (/\ IsTransform(calls[i]) /\ IsTransform(calls[j])
           /\ calls[i].transformer = calls[j].transformer
           /\ calls[i].inputs = calls[j].inputs) => calls[i].output = calls[j].output

\* After two successful fits, a non-empty batch was transformed by the scaler of
\* the first fit, whose standard deviation is finite and not zero and differs
\* from that of the second fit.
TransformIsPureWitness ==
    /\ Len(calls) = 3
    /\ IsFit(calls[1]) /\ calls[1].outcome = "Ok"
    /\ IsFit(calls[2]) /\ calls[2].outcome = "Ok"
    /\ IsTransform(calls[3]) /\ Len(calls[3].inputs) > 1
    /\ calls[3].transformer = calls[1].scaler
    /\ calls[1].scaler # calls[2].scaler
    /\ calls[3].transformer.standard_deviation.k = "sqrt"
    /\ calls[3].transformer.standard_deviation.n # 0
    /\ calls[3].before[calls[1].o] > 0

\* |x - milli/1000| <= 1/1000 for a standard deviation x
Approx(x, milli) ==
    /\ x.k = "sqrt" /\ x.n >= 0
    /\ (milli - 1) * (milli - 1) * x.d <= x.n * 1000000
    /\ x.n * 1000000 <= (milli + 1) * (milli + 1) * x.d

\* calls[i] is the fit of the running example: ScenarioA under the default Config.
ScenarioFit(i) ==
    /\ IsFit(calls[i]) /\ calls[i].inputs = ScenarioA
    /\ calls[i].ddof = ConfigDefault.ddof

\* calls[i] merges ScenarioB into the scaler the fit of the running example
\* has just returned, on the same optimizer.
ScenarioUpdate(i) ==
    /\ i > 1 /\ ScenarioFit(i - 1) /\ calls[i - 1].outcome = "Ok"
    /\ IsUpdate(calls[i]) /\ calls[i].o = calls[i - 1].o
    /\ calls[i].inputs = ScenarioB
    /\ calls[i].transformer = calls[i - 1].scaler

\* The running example, with the merged standard deviation given in thousandths.
Scenario(milli) ==
    \A i \in DOMAIN calls :
        LET c == calls[i]
            direct == FitCall(OnlineOptimizerDefault, ScenarioA \o ScenarioB, ConfigDefault)
        IN  /\ ScenarioFit(i) =>
                  /\ c.outcome = "Ok"
                  /\ c.scaler.mean = FromInt(5)
                  /\ Approx(c.scaler.standard_deviation, 2138)
                  /\ c.after[c.o] = 8
            /\ ScenarioUpdate(i) =>
                  /\ c.before[c.o] = 8 /\ Len(c.inputs) = 2
                  /\ c.outcome = "Ok"
                  /\ c.scaler.mean = Fin(44, 10)
                  /\ Approx(c.scaler.standard_deviation, milli)
                  /\ direct.outcome = "Ok"
                  /\ c.scaler.mean = direct.scaler.mean
                  /\ c.scaler.standard_deviation = direct.scaler.standard_deviation

\* C5 as stated: with ddof = 1, fit([2,4,4,4,5,5,7,9]) gives mean 5.0, standard
\* deviation 2.138 and counter 8, and incremental_fit([1,3]) on it gives mean 4.4
\* and standard deviation 2.458, those of fit([2,4,4,4,5,5,7,9,1,3]).
ScenarioAsStated == Scenario(2458)

\* C5 amended: as stated, but the merged standard deviation is 2.319.
ScenarioAmended == Scenario(2319)

\* The running example was run: the fit and then the merge.
ScenarioWitness == \E i \in DOMAIN calls : ScenarioUpdate(i) /\ calls[i].outcome = "Ok"

\* C1: when fit(A) is followed by incremental_fit(B) of the returned scaler on the
\* same optimizer, and A and B together have more than ddof samples, the merge
\* returns the mean and the standard deviation of fit(A ++ B).
MergeEquivalence ==
    \A i \in DOMAIN calls :
        LET f == calls[IF i > 1 THEN i - 1 ELSE i]
            u == calls[i]
            direct == FitCall(OnlineOptimizerDefault, f.inputs \o u.inputs, Config(f.ddof))
        IN  (/\ i > 1 /\ IsFit(f) /\ f.outcome = "Ok"
             /\ IsUpdate(u) /\ u.o = f.o /\ u.transformer = f.scaler
             /\ ~Geq(f.ddof, FromInt(Len(f.inputs) + Len(u.inputs)))) =>
                /\ u.outcome = "Ok"
                /\ direct.outcome = "Ok"
                /\ u.scaler.mean = direct.scaler.mean
                /\ u.scaler.standard_deviation = direct.scaler.standard_deviation

\* C4: a transform by a scaler whose standard deviation is zero returns an error,
\* not an output of infinities and NaNs. (Batches with no element, whose output
\* holds neither, are left out in the claim's favour.)
DegenerateScaleRejected ==
    \A i \in DOMAIN calls :
        (/\ IsTransform(calls[i]) /\ Len(calls[i].inputs) > 0
         /\ IsZero(calls[i].transformer.standard_deviation)) =>
            calls[i].outcome = "Err"

\* calls[i] merges a batch into the scaler that the call before it returned, on
\* the optimizer that returned it.
Threaded(i) ==
    /\ i > 1 /\ IsUpdate(calls[i])
    /\ IsFit(calls[i - 1]) \/ IsUpdate(calls[i - 1])
    /\ calls[i - 1].outcome = "Ok"
    /\ calls[i].o = calls[i - 1].o
    /\ calls[i].transformer = calls[i - 1].scaler

\* C8: when a fitted scaler absorbs two batches by two incremental_fits in a row,
\* the result has the mean, the standard deviation and the counter that one
\* incremental_fit of the two batches joined gives from the same start.
Associativity ==
    \A i \in DOMAIN calls :
        (i > 2 /\ Threaded(i - 1) /\ Threaded(i) /\ calls[i - 1].outcome = "Ok") =>
            LET u1 == calls[i - 1]
                u2 == calls[i]
                whole == IncrementalFitCall(u1.before[u1.o], u1.inputs \o u2.inputs,
                                            u1.transformer)
            IN  whole.outcome = "Ok" =>
                    /\ u2.outcome = "Ok"
                    /\ u2.after[u2.o] = whole.n_samples
                    /\ u2.scaler.mean = whole.scaler.mean
                    /\ u2.scaler.standard_deviation = whole.scaler.standard_deviation

\* C10: an incremental_fit of a non-empty batch returns Ok, whatever the scaler
\* and the counter, adds the size of the batch to the counter and returns a
\* scaler with the ddof of the scaler it was given.
UpdateNeverFails ==
    \A i \in DOMAIN calls :
        LET c == calls[i]
        IN  (IsUpdate(c) /\ Len(c.inputs) > 0) =>
                /\ c.outcome = "Ok"
                /\ c.after[c.o] = c.before[c.o] + Len(c.inputs)
                /\ c.scaler.ddof = c.transformer.ddof

=============================================================================
